---- MODULE Spec2Model ----
(***************************************************************************)
(* Model of the kegberry command-line tool (src/kegberry/app.py).          *)
(*                                                                         *)
(* Text is modelled as a sequence of characters (each a one-character      *)
(* string) or, where only whole words matter, of words.  A workflow is a   *)
(* sequence of steps; each call of run_command is one step, and the        *)
(* spawned command's exit status and output are chosen by the environment. *)
(***************************************************************************)
EXTENDS Integers, Sequences, FiniteSets, TLC

\* Largest exit status a spawned command returns in the model.
MaxRc == 1
\* Longest command text given to the account wrapper in SpecWrap.
MaxLen == 4
\* Depth at which the interpreter's recursion limit is modelled to strike.
MaxDepth == 2

RC == 0..MaxRc

(***************************************************************************)
(* Python values that run_command returns.                                 *)
(***************************************************************************)
IntVal(i) == [t |-> "int", i |-> i, s |-> <<>>]
StrVal(s) == [t |-> "str", i |-> 0, s |-> s]
None == [t |-> "None", i |-> 0, s |-> <<>>]

(***************************************************************************)
(* String helpers (str.strip, the `in` substring test, str.replace).       *)
(***************************************************************************)
Whitespace == {" ", "\t", "\n"}

RECURSIVE LStrip(_)
LStrip(s) ==
    IF s # <<>> /\ Head(s) \in Whitespace THEN LStrip(Tail(s)) ELSE s

RECURSIVE RStrip(_)
RStrip(s) ==
    IF s # <<>> /\ s[Len(s)] \in Whitespace
    THEN RStrip(SubSeq(s, 1, Len(s) - 1))
    ELSE s

Strip(s) == RStrip(LStrip(s))

Contains(needle, hay) ==
    \E i \in 0..(Len(hay) - Len(needle)) :
        SubSeq(hay, i + 1, i + Len(needle)) = needle

RECURSIVE Replace(_, _, _)
Replace(s, old, new) ==
    IF s = <<>> THEN <<>>
    ELSE (IF Head(s) = old THEN new ELSE <<Head(s)>>) \o Replace(Tail(s), old, new)

RECURSIVE Join(_, _)
Join(words, sep) ==
    IF words = <<>> THEN <<>>
    ELSE IF Len(words) = 1 THEN Head(words)
    ELSE Head(words) \o sep \o Join(Tail(words), sep)

(***************************************************************************)
(* run_command: fake is FLAGS.fake; rc and out are the exit status and the *)
(* combined output the spawned shell would produce.  The result says       *)
(* whether a process was spawned, whether CalledProcessError reached the   *)
(* caller, whether the diagnostic was logged, and the value returned.      *)
(***************************************************************************)
run_command_nofake(fake, fail_silently, call, rc, out) ==
    IF ~call /\ rc # 0
    THEN [spawned |-> TRUE, raised |-> TRUE, logged |-> ~fail_silently, ret |-> None]
    ELSE [spawned |-> TRUE, raised |-> FALSE, logged |-> FALSE,
          ret |-> IF call THEN IntVal(rc) ELSE StrVal(out)]

run_command_swallow(fake, fail_silently, call, rc, out) ==
    IF fake
    THEN [spawned |-> FALSE, raised |-> FALSE, logged |-> FALSE, ret |-> IntVal(0)]
    ELSE IF ~call /\ rc # 0
    THEN [spawned |-> TRUE, raised |-> ~fail_silently, logged |-> ~fail_silently,
          ret |-> None]
    ELSE [spawned |-> TRUE, raised |-> FALSE, logged |-> FALSE,
          ret |-> IF call THEN IntVal(rc) ELSE StrVal(out)]

run_command(fake, fail_silently, call, rc, out) ==
    IF fake
    THEN [spawned |-> FALSE, raised |-> FALSE, logged |-> FALSE, ret |-> IntVal(0)]
    ELSE LET \* subprocess.call returns the status; check_output raises on non-zero
             CalledProcessError == ~call /\ rc # 0
         IN  IF CalledProcessError
             THEN IF call
                  THEN [spawned |-> TRUE, raised |-> FALSE, logged |-> FALSE,
                        ret |-> None]
                  ELSE [spawned |-> TRUE, raised |-> TRUE,
                        logged |-> ~fail_silently, ret |-> None]
             ELSE [spawned |-> TRUE, raised |-> FALSE, logged |-> FALSE,
                   ret |-> IF call THEN IntVal(rc) ELSE StrVal(out)]

(***************************************************************************)
(* run_as_kegberry / run_in_virtualenv: the command line handed on to      *)
(* run_command.  The fixed text before the opening quote holds no quote    *)
(* and no backslash and is kept as one element.                            *)
(***************************************************************************)
DQ == "\""
BS == "\\"
SudoPrefix == "sudo su -l kegbot -c "
ActivatePrefix == ". /home/kegbot/kegbot-server.venv/bin/activate && "

run_as_kegberry(cmd) ==
    <<SudoPrefix, DQ>> \o Replace(cmd, DQ, <<BS, DQ>>) \o <<DQ>>

run_in_virtualenv(cmd) == run_as_kegberry(<<ActivatePrefix>> \o cmd)

kegbot_cmd(args) == <<"kegbot", " ">> \o Join(args, <<" ">>)

(***************************************************************************)
(* Shell double-quote scanning of a wrapped line: the index of the quote   *)
(* that closes the string opened at position 2 (0 when it is never         *)
(* closed).  Inside double quotes a backslash escapes the next character.  *)
(***************************************************************************)
RECURSIVE ScanClose(_, _)
ScanClose(w, i) ==
    IF i > Len(w) THEN 0
    ELSE IF w[i] = BS THEN ScanClose(w, i + 2)
    ELSE IF w[i] = DQ THEN i
    ELSE ScanClose(w, i + 1)

OuterClose(w) == ScanClose(w, 3)

(***************************************************************************)
(* Names, inputs and external state.                                       *)
(***************************************************************************)
SERVER_VENV == "kegbot-server.venv"
PYCORE_VENV == "kegbot-pycore.venv"

\* A command name is its leading underscores, one element each, then the rest.
PublicCommands ==
    {<<"status">>, <<"install">>, <<"upgrade">>, <<"kegbot">>, <<"delete">>,
     <<"stop">>, <<"start">>, <<"restart">>}

\* Names for which getattr(self, name, None) finds something.
Attributes ==
    PublicCommands \cup
        {<<"run">>, <<"_", "usage">>, <<"_", "update_packages">>, <<"_", "_doc__">>}

CommandNames == Attributes \cup {<<"bogus">>, <<"_", "bogus">>, <<>>}

\* extra_argv: the positional arguments left after flag parsing.
Argvs ==
    {<<>>} \cup {<<c>> : c \in CommandNames}
           \cup {<<c, <<"upgrade">>>> : c \in {<<"kegbot">>, <<"run">>}}

Invocations ==
    [user : {"root", "pi"}, flagsOk : BOOLEAN, fake : BOOLEAN,
     allow_root : BOOLEAN, pycore : BOOLEAN, upgrade_system_packages : BOOLEAN,
     argv : Argvs]

\* What the operator may type at the delete prompt.
ConfirmInputs ==
    {<<>>, <<"Y", "E", "S">>, <<" ", "Y", "E", "S">>, <<"Y", "E", "S", " ">>,
     <<"\t", "Y", "E", "S", " ">>, <<"y", "e", "s">>, <<"Y", "E", " ", "S">>,
     <<"N", "O">>}
YES == <<"Y", "E", "S">>

\* Output of `pip install -U kegberry`, word by word.
PipOutputs ==
    {<<"Requirement", "already", "up-to-date", ":", "kegberry">>,
     <<"Successfully", "installed", "kegberry">>,
     <<"already", "installed">>, <<>>}
UpToDateText == <<"already", "up-to-date">>

\* Output of `which virtualenv`.
WhichOutputs == {<<>>, <<"\n">>, <<"/usr/bin/virtualenv", "\n">>}

\* Output of `kegbot create_api_key Kegberry`.
ApiKeyOutputs == {<<"k1">>, <<"k2">>}

FreshSystem ==
    [db |-> FALSE, user |-> FALSE, venvs |-> {}, cred |-> <<>>,
     nginx |-> FALSE, supervisor |-> "none"]

VARIABLES
    pc,         \* position of the running invocation
    inv,        \* the invocation: user, flags, extra_argv
    ext,        \* external state: database, account, environments, files
    pre,        \* ext when the invocation started
    log,        \* processes spawned by this invocation: <<[tag, rc], ...>>
    calls,      \* number of run_command calls of this invocation
    diag,       \* commands whose failure diagnostic was logged
    msgs,       \* messages printed by this invocation
    exitKind,   \* how the invocation ended
    handler,    \* the method run() dispatched to ("none" before dispatch)
    depth,      \* nesting of run() inside run()
    confirm,    \* delete: the operator's answer
    output,     \* upgrade: value of the self-upgrade run_command
    venv_cmd,   \* install: the stripped `which virtualenv` output
    todo,       \* install: environments the loop has still to visit
    api_key,    \* install: value of the create_api_key run_command
    rendered,   \* install: templates written to a temporary file
    arg,        \* SpecRC / SpecWrap: the function's input
    res         \* SpecRC / SpecWrap: the function's result

wfvars ==
    <<pc, inv, ext, pre, log, calls, diag, msgs, exitKind, handler, depth,
      confirm, output, venv_cmd, todo, api_key, rendered>>
vars == <<wfvars, arg, res>>

locals == <<confirm, output, venv_cmd, todo, api_key, rendered>>

NoInvocation ==
    [user |-> "pi", flagsOk |-> TRUE, fake |-> FALSE, allow_root |-> FALSE,
     pycore |-> TRUE, upgrade_system_packages |-> FALSE, argv |-> <<>>]

InitWorkflow ==
    /\ pc = "idle"
    /\ inv = NoInvocation
    /\ ext = FreshSystem
    /\ pre = ext
    /\ log = <<>>
    /\ calls = 0
    /\ diag = {}
    /\ msgs = {}
    /\ exitKind = "none"
    /\ handler = "none"
    /\ depth = 0
    /\ confirm = <<>>
    /\ output = None
    /\ venv_cmd = <<>>
    /\ todo = <<>>
    /\ api_key = None
    /\ rendered = {}

Init ==
    /\ InitWorkflow
    /\ arg = <<>>
    /\ res = <<>>

\* Exit status of the process: sys.exit(1) and an uncaught exception both give 1.
ExitCode == IF exitKind = "return" THEN 0 ELSE 1

(***************************************************************************)
(* KegberryApp.run: flag parsing, the superuser check, command lookup.     *)
(***************************************************************************)
StartsWithUnderscore(name) == name # <<>> /\ Head(name) = "_"

command_exists(command) == command \in Attributes /\ ~StartsWithUnderscore(command)

\* The outcome of run()'s body up to the call of command_fn:
\* "flags", "root", "nocommand", "unknown" (all exit 1) or "dispatch".
run_outcome(i) ==
    IF ~i.flagsOk THEN "flags"
    ELSE IF i.user = "root" /\ ~i.allow_root THEN "root"
    ELSE IF i.argv = <<>> THEN "nocommand"
    ELSE IF ~command_exists(i.argv[1]) THEN "unknown"
    ELSE "dispatch"

run_msgs(outcome) ==
    CASE outcome = "root" -> {"do_not_run_as_root"}
      [] outcome = "dispatch" -> {"banner"}
      [] OTHER -> {"usage"}

EntryPoint(command) ==
    CASE command = <<"status">> -> "status"
      [] command = <<"install">> -> "i_apt_update"
      [] command = <<"upgrade">> -> "u_pip_self"
      [] command = <<"kegbot">> -> "kegbot"
      [] command = <<"delete">> -> "d_confirm"
      [] command = <<"stop">> -> "stop"
      [] command = <<"start">> -> "start"
      [] command = <<"restart">> -> "restart"
      [] OTHER -> "h_run"

Raise(kind) ==
    /\ pc' = "exited"
    /\ exitKind' = kind

\* A new process: `kegberry [flags] [command [args]]`.
Run ==
    /\ pc = "idle"
    /\ \E i \in Invocations :
        LET o == run_outcome(i) IN
        /\ inv' = i
        /\ msgs' = run_msgs(o)
        /\ IF o = "dispatch"
           THEN /\ handler' = i.argv[1][1]
                /\ pc' = EntryPoint(i.argv[1])
                /\ exitKind' = "none"
           ELSE /\ handler' = "none"
                /\ Raise("sys.exit")
    /\ pre' = ext
    /\ UNCHANGED <<ext, log, calls, diag, depth, locals, arg, res>>

\* The process is gone: nothing but the external state outlives it.
Exit ==
    /\ pc = "exited"
    /\ pc' = "idle"
    /\ inv' = NoInvocation
    /\ pre' = ext
    /\ log' = <<>>
    /\ calls' = 0
    /\ diag' = {}
    /\ msgs' = {}
    /\ exitKind' = "none"
    /\ handler' = "none"
    /\ depth' = 0
    /\ confirm' = <<>>
    /\ output' = None
    /\ venv_cmd' = <<>>
    /\ todo' = <<>>
    /\ api_key' = None
    /\ rendered' = {}
    /\ UNCHANGED <<ext, arg, res>>

\* `kegberry run`: command_fn is run itself, which parses the same argv again
\* and dispatches again, until the interpreter's recursion limit.
RunAgain ==
    /\ pc = "h_run"
    /\ IF Len(inv.argv) > 1
       THEN /\ Raise("TypeError") /\ depth' = depth
       ELSE IF depth >= MaxDepth
       THEN /\ Raise("RuntimeError") /\ depth' = depth
       ELSE /\ run_outcome(inv) = "dispatch"
            /\ pc' = EntryPoint(inv.argv[1])
            /\ exitKind' = exitKind
            /\ depth' = depth + 1
    /\ UNCHANGED <<inv, ext, pre, log, calls, diag, msgs, handler, locals, arg, res>>

\* command_fn returned: run() returns and the process ends normally.
Return ==
    /\ pc = "return"
    /\ pc' = "exited"
    /\ exitKind' = "return"
    /\ UNCHANGED <<inv, ext, pre, log, calls, diag, msgs, handler, depth, locals,
                   arg, res>>

status ==
    /\ pc = "status"
    /\ pc' = "return"
    /\ msgs' = msgs \cup {"app_version"}
    /\ UNCHANGED <<inv, ext, pre, log, calls, diag, exitKind, handler, depth,
                   locals, arg, res>>

(***************************************************************************)
(* One call of run_command from a workflow.                                *)
(***************************************************************************)
Track(r, tag, rc) ==
    /\ calls' = calls + 1
    /\ log' = IF r.spawned THEN Append(log, [tag |-> tag, rc |-> rc]) ELSE log
    /\ diag' = IF r.logged THEN diag \cup {tag} ELSE diag

\* A step whose output is not used and whose failure is not caught; ext2 is the
\* external state a successful command leaves.
Simple(here, tag, next, ext2) ==
    /\ pc = here
    /\ \E rc \in RC :
        LET r == run_command(inv.fake, FALSE, FALSE, rc, <<>>) IN
        /\ Track(r, tag, rc)
        /\ IF r.raised
           THEN /\ Raise("CalledProcessError")
                /\ ext' = ext
           ELSE /\ pc' = next
                /\ exitKind' = exitKind
                /\ ext' = IF r.spawned THEN ext2 ELSE ext
    /\ UNCHANGED <<inv, pre, msgs, handler, depth, arg, res>>

Plain(here, tag, next, ext2) ==
    /\ Simple(here, tag, next, ext2)
    /\ UNCHANGED locals

(***************************************************************************)
(* KegberryApp.install                                                     *)
(***************************************************************************)
InstallAptUpdate ==
    Plain("i_apt_update", "apt_update",
          IF inv.upgrade_system_packages THEN "i_apt_upgrade" ELSE "i_apt_install",
          ext)

InstallAptUpgrade == Plain("i_apt_upgrade", "apt_upgrade", "i_apt_install", ext)

InstallAptInstall == Plain("i_apt_install", "apt_install", "i_apt_clean", ext)

InstallAptClean == Plain("i_apt_clean", "apt_clean", "i_mysqlshow", ext)

database_missing_always(r) == TRUE

\* except subprocess.CalledProcessError: the database is taken to be missing.
database_missing(r) == r.raised

\* `mysqlshow <database>` exits 0 only when the database exists; it also fails
\* when the server cannot be reached, which the handler takes for absence.
InstallProbeDatabase ==
    /\ pc = "i_mysqlshow"
    /\ \E rc \in RC :
        LET r == run_command(inv.fake, TRUE, FALSE, rc, <<>>) IN
        /\ (rc = 0) => ext.db
        /\ Track(r, "mysqlshow", rc)
        /\ pc' = IF database_missing(r) THEN "i_create_db" ELSE "i_tzinfo"
    /\ UNCHANGED <<inv, ext, pre, msgs, exitKind, handler, depth, locals, arg, res>>

\* `create database` succeeds only when the database does not exist yet.
InstallCreateDatabase ==
    /\ pc = "i_create_db"
    /\ \E rc \in RC :
        LET r == run_command(inv.fake, FALSE, FALSE, rc, <<>>) IN
        /\ (rc = 0) => ~ext.db
        /\ Track(r, "create_db", rc)
        /\ IF r.raised
           THEN /\ Raise("CalledProcessError")
                /\ ext' = ext
           ELSE /\ pc' = "i_tzinfo"
                /\ exitKind' = exitKind
                /\ ext' = IF r.spawned THEN [ext EXCEPT !.db = TRUE] ELSE ext
    /\ UNCHANGED <<inv, pre, msgs, handler, depth, locals, arg, res>>

InstallTimezones == Plain("i_tzinfo", "tzinfo", "i_getpwnam", ext)

\* pwd.getpwnam(user): a library lookup, made also when FLAGS.fake is set.
InstallCheckUser ==
    /\ pc = "i_getpwnam"
    /\ pc' = IF ext.user THEN "i_which" ELSE "i_useradd"
    /\ UNCHANGED <<inv, ext, pre, log, calls, diag, msgs, exitKind, handler, depth,
                   locals, arg, res>>

InstallCreateUser ==
    Plain("i_useradd", "useradd", "i_which", [ext EXCEPT !.user = TRUE])

venvs_wanted(pycore) ==
    IF pycore THEN <<SERVER_VENV, PYCORE_VENV>> ELSE <<SERVER_VENV>>

\* venv_cmd = run_command('which virtualenv').strip() and the check that follows
\* it: os.envrion is no attribute of os, so the error branch raises before it
\* has logged the search path and never reaches its sys.exit(1).
InstallFindVirtualenv ==
    /\ pc = "i_which"
    /\ \E rc \in RC, out \in WhichOutputs :
        LET r == run_command(inv.fake, FALSE, FALSE, rc, out) IN
        /\ Track(r, "which", rc)
        /\ IF r.raised
           THEN /\ Raise("CalledProcessError")
                /\ UNCHANGED <<venv_cmd, todo, msgs>>
           ELSE IF r.ret.t # "str"
           THEN /\ Raise("AttributeError")
                /\ UNCHANGED <<venv_cmd, todo, msgs>>
           ELSE /\ venv_cmd' = Strip(r.ret.s)
                /\ IF venv_cmd' = <<>>
                   THEN /\ Raise("AttributeError")
                        /\ msgs' = msgs \cup {"could_not_find_virtualenv"}
                        /\ todo' = todo
                   ELSE /\ pc' = "i_venv"
                        /\ exitKind' = exitKind
                        /\ msgs' = msgs
                        /\ todo' = venvs_wanted(inv.pycore)
    /\ UNCHANGED <<inv, ext, pre, handler, depth, confirm, output, api_key, rendered,
                   arg, res>>

\* What `if [ ! -e <dir> ]; then <venv_cmd> <dir>; fi` does.
venv_tag(exists) == IF exists THEN "venv_skip" ELSE "venv_create"

\* One turn of the loop over venvs.
InstallVirtualenv ==
    /\ pc = "i_venv"
    /\ todo # <<>>
    /\ \E rc \in RC :
        LET r == run_command(inv.fake, FALSE, FALSE, rc, <<>>)
            v == Head(todo)
        IN  /\ Track(r, venv_tag(v \in ext.venvs), rc)
            /\ IF r.raised
               THEN /\ Raise("CalledProcessError")
                    /\ ext' = ext
               ELSE /\ pc' = IF Tail(todo) = <<>> THEN "i_pip_server" ELSE "i_venv"
                    /\ exitKind' = exitKind
                    /\ ext' = IF r.spawned
                              THEN [ext EXCEPT !.venvs = @ \cup {v}]
                              ELSE ext
    /\ todo' = Tail(todo)
    /\ UNCHANGED <<inv, pre, msgs, handler, depth, confirm, output, venv_cmd, api_key,
                   rendered, arg, res>>

InstallPipServer ==
    Plain("i_pip_server", "pip_server",
          IF inv.pycore THEN "i_pip_pycore" ELSE "i_setup", ext)

InstallPipPycore == Plain("i_pip_pycore", "pip_pycore", "i_setup", ext)

InstallSetup == Plain("i_setup", "setup_kegbot", "i_api_key", ext)

InstallApiKey ==
    /\ pc = "i_api_key"
    /\ \E rc \in RC, out \in ApiKeyOutputs :
        LET r == run_command(inv.fake, FALSE, FALSE, rc, out) IN
        /\ Track(r, "create_api_key", rc)
        /\ IF r.raised
           THEN /\ Raise("CalledProcessError")
                /\ api_key' = api_key
           ELSE /\ pc' = "i_write_cred"
                /\ exitKind' = exitKind
                /\ api_key' = r.ret
    /\ UNCHANGED <<inv, ext, pre, msgs, handler, depth, confirm, output, venv_cmd,
                   todo, rendered, arg, res>>

\* "...--api_key={}".format(api_key)
KeyText(v) == IF v.t = "str" THEN v.s ELSE <<"0">>

InstallWriteCredentials ==
    Plain("i_write_cred", "write_cred", "i_chmod",
          [ext EXCEPT !.cred = KeyText(api_key)])

InstallChmod == Plain("i_chmod", "chmod_cred", "i_mv_nginx", ext)

\* write_tempfile(...) runs before the move, and also when FLAGS.fake is set.
InstallNginxConf ==
    /\ Simple("i_mv_nginx", "mv_nginx", "i_mv_supervisor", [ext EXCEPT !.nginx = TRUE])
    /\ rendered' = rendered \cup {"nginx"}
    /\ UNCHANGED <<confirm, output, venv_cmd, todo, api_key>>

supervisor_tmpl(pycore) == IF pycore THEN "pycore" ELSE "no_pycore"

InstallSupervisorConf ==
    /\ Simple("i_mv_supervisor", "mv_supervisor", "i_reload",
              [ext EXCEPT !.supervisor = supervisor_tmpl(inv.pycore)])
    /\ rendered' = rendered \cup {"supervisor"}
    /\ UNCHANGED <<confirm, output, venv_cmd, todo, api_key>>

InstallReload == Plain("i_reload", "supervisor_reload", "i_nginx_restart", ext)

InstallNginxRestart == Plain("i_nginx_restart", "nginx_restart", "return", ext)

(***************************************************************************)
(* KegberryApp.upgrade and KegberryApp.kegbot                              *)
(***************************************************************************)
UpgradeSelf ==
    /\ pc = "u_pip_self"
    /\ \E rc \in RC, out \in PipOutputs :
        LET r == run_command(inv.fake, FALSE, FALSE, rc, out) IN
        /\ Track(r, "pip_self", rc)
        /\ IF r.raised
           THEN /\ Raise("CalledProcessError")
                /\ output' = output
           ELSE /\ pc' = "u_gate"
                /\ exitKind' = exitKind
                /\ output' = r.ret
    /\ UNCHANGED <<inv, ext, pre, msgs, handler, depth, confirm, venv_cmd, todo,
                   api_key, rendered, arg, res>>

already_up_to_date_always(text) == TRUE

\* 'already up-to-date' in output
already_up_to_date(text) == Contains(UpToDateText, text)

UpgradeGate ==
    /\ pc = "u_gate"
    /\ IF output.t # "str"
       THEN /\ Raise("TypeError")
            /\ msgs' = msgs
       ELSE IF already_up_to_date(output.s)
       THEN /\ pc' = "u_pip_server"
            /\ exitKind' = exitKind
            /\ msgs' = msgs
       ELSE /\ pc' = "return"
            /\ exitKind' = exitKind
            /\ msgs' = msgs \cup {"run_upgrade_again"}
    /\ UNCHANGED <<inv, ext, pre, log, calls, diag, handler, depth, locals, arg, res>>

UpgradeServer ==
    Plain("u_pip_server", "pip_server",
          IF inv.pycore THEN "u_pip_pycore" ELSE "u_kegbot", ext)

UpgradePycore == Plain("u_pip_pycore", "pip_pycore", "u_kegbot", ext)

\* The kegbot method: dispatched to directly, or called by upgrade.
kegbot ==
    /\ pc \in {"kegbot", "u_kegbot"}
    /\ \E rc \in RC :
        LET r == run_command(inv.fake, FALSE, TRUE, rc, <<>>) IN
        /\ Track(r, "kegbot", rc)
        /\ IF r.raised
           THEN Raise("CalledProcessError")
           ELSE /\ pc' = IF pc = "u_kegbot" THEN "u_restart" ELSE "return"
                /\ exitKind' = exitKind
    /\ UNCHANGED <<inv, ext, pre, msgs, handler, depth, locals, arg, res>>

UpgradeRestart == Plain("u_restart", "restart", "return", ext)

(***************************************************************************)
(* KegberryApp.delete, stop, start, restart                                *)
(***************************************************************************)
delete_confirmed_any(text) == TRUE

\* not (confirm.strip() != 'YES')
delete_confirmed(text) == Strip(text) = YES

DeleteConfirm ==
    /\ pc = "d_confirm"
    /\ \E c \in ConfirmInputs :
        /\ confirm' = c
        /\ IF delete_confirmed(c)
           THEN /\ pc' = "d_stop"
                /\ exitKind' = exitKind
                /\ msgs' = msgs
           ELSE /\ Raise("sys.exit")
                /\ msgs' = msgs \cup {"delete_aborted"}
    /\ UNCHANGED <<inv, ext, pre, log, calls, diag, handler, depth, output, venv_cmd,
                   todo, api_key, rendered, arg, res>>

DeleteStop == Plain("d_stop", "stop", "d_userdel", ext)

AccountRemoved(e) == [e EXCEPT !.user = FALSE, !.venvs = {}, !.cred = <<>>]

\* `sudo userdel -r -f <user>; true`: the shell's status is that of `true`.
DeleteUser ==
    /\ pc = "d_userdel"
    /\ \E removed \in BOOLEAN :
        LET r == run_command(inv.fake, FALSE, FALSE, 0, <<>>) IN
        /\ Track(r, "userdel", 0)
        /\ IF r.raised
           THEN /\ Raise("CalledProcessError")
                /\ ext' = ext
           ELSE /\ pc' = "d_dropdb"
                /\ exitKind' = exitKind
                /\ ext' = IF r.spawned /\ removed /\ ext.user
                          THEN AccountRemoved(ext)
                          ELSE ext
    /\ UNCHANGED <<inv, pre, msgs, handler, depth, locals, arg, res>>

\* `drop database` succeeds only on a database that exists.
DeleteDatabase ==
    /\ pc = "d_dropdb"
    /\ \E rc \in RC :
        LET r == run_command(inv.fake, FALSE, FALSE, rc, <<>>) IN
        /\ (rc = 0) => ext.db
        /\ Track(r, "drop_db", rc)
        /\ IF r.raised
           THEN /\ Raise("CalledProcessError")
                /\ ext' = ext
           ELSE /\ pc' = "return"
                /\ exitKind' = exitKind
                /\ ext' = IF r.spawned THEN [ext EXCEPT !.db = FALSE] ELSE ext
    /\ UNCHANGED <<inv, pre, msgs, handler, depth, locals, arg, res>>

stop == Plain("stop", "stop", "return", ext)

start == Plain("start", "start", "return", ext)

restart == Plain("restart", "restart", "return", ext)

Next ==
    \/ Run
    \/ Exit
    \/ RunAgain
    \/ Return
    \/ status
    \/ InstallAptUpdate
    \/ InstallAptUpgrade
    \/ InstallAptInstall
    \/ InstallAptClean
    \/ InstallProbeDatabase
    \/ InstallCreateDatabase
    \/ InstallTimezones
    \/ InstallCheckUser
    \/ InstallCreateUser
    \/ InstallFindVirtualenv
    \/ InstallVirtualenv
    \/ InstallPipServer
    \/ InstallPipPycore
    \/ InstallSetup
    \/ InstallApiKey
    \/ InstallWriteCredentials
    \/ InstallChmod
    \/ InstallNginxConf
    \/ InstallSupervisorConf
    \/ InstallReload
    \/ InstallNginxRestart
    \/ UpgradeSelf
    \/ UpgradeGate
    \/ UpgradeServer
    \/ UpgradePycore
    \/ kegbot
    \/ UpgradeRestart
    \/ DeleteConfirm
    \/ DeleteStop
    \/ DeleteUser
    \/ DeleteDatabase
    \/ stop
    \/ start
    \/ restart

Spec == Init /\ [][Next]_vars

(***************************************************************************)
(* run_command on its own: every combination of its arguments and of the   *)
(* spawned command's exit status and output.                               *)
(***************************************************************************)
CommandOutputs == {<<>>, <<"ok">>, <<"error">>, <<"\n">>}

RunCommandArgs ==
    [fake : BOOLEAN, fail_silently : BOOLEAN, call : BOOLEAN, rc : RC,
     out : CommandOutputs]

InitRC ==
    /\ InitWorkflow
    /\ arg \in RunCommandArgs
    /\ res = <<>>

CallRunCommand ==
    /\ res = <<>>
    /\ res' = <<run_command(arg.fake, arg.fail_silently, arg.call, arg.rc, arg.out)>>
    /\ UNCHANGED <<wfvars, arg>>

NextRC == CallRunCommand

SpecRC == InitRC /\ [][NextRC]_vars

(***************************************************************************)
(* The account wrapper on its own: every command text up to MaxLen         *)
(* characters over an alphabet with the double quote and the backslash.    *)
(***************************************************************************)
Alphabet == {"a", DQ, BS}

Texts == UNION {[1..n -> Alphabet] : n \in 0..MaxLen}

InitWrap ==
    /\ InitWorkflow
    /\ arg \in Texts
    /\ res = <<>>

WrapAsKegberry ==
    /\ res = <<>>
    /\ res' = <<run_as_kegberry(arg)>>
    /\ UNCHANGED <<wfvars, arg>>

WrapInVirtualenv ==
    /\ res = <<>>
    /\ res' = <<run_in_virtualenv(arg)>>
    /\ UNCHANGED <<wfvars, arg>>

\* kegbot(*args) with one argument: `kegberry kegbot <arg>`.
WrapKegbot ==
    /\ res = <<>>
    /\ res' = <<run_in_virtualenv(kegbot_cmd(<<arg>>))>>
    /\ UNCHANGED <<wfvars, arg>>

NextWrap ==
    \/ WrapAsKegberry
    \/ WrapInVirtualenv
    \/ WrapKegbot

SpecWrap == InitWrap /\ [][NextWrap]_vars

(***************************************************************************)
(* Properties                                                              *)
(***************************************************************************)
Tags(l) == [i \in 1..Len(l) |-> l[i].tag]

TagSet(l) == {l[i].tag : i \in 1..Len(l)}

IsPrefix(a, b) == Len(a) <= Len(b) /\ a = SubSeq(b, 1, Len(a))

\* C1 as stated: delete's destructive steps run only when the answer is
\* exactly YES; after any other answer (YES with whitespace around it
\* included) no command has run and delete ends with exit status 1.
C1_ExactYes ==
    (handler = "delete" /\ pc # "d_confirm" /\ confirm # YES) =>
        /\ calls = 0
        /\ log = <<>>
        /\ pc = "exited" => exitKind = "sys.exit" /\ ExitCode = 1

\* C1 amended: delete goes on exactly when the answer, with leading and
\* trailing whitespace removed, is YES; after any other answer it has exited
\* with status 1, has run no command and has left the external state alone.
C1_StrippedYes ==
    (handler = "delete" /\ pc # "d_confirm") =>
        IF Strip(confirm) = YES
        THEN exitKind # "sys.exit" /\ "delete_aborted" \notin msgs
        ELSE /\ pc = "exited"
             /\ exitKind = "sys.exit"
             /\ ExitCode = 1
             /\ "delete_aborted" \in msgs
             /\ calls = 0
             /\ log = <<>>
             /\ ext = pre

C1_Witness ==
    /\ handler = "delete"
    /\ confirm = <<" ", "Y", "E", "S">>
    /\ Tags(log) = <<"stop", "userdel", "drop_db">>
    /\ ~ext.db

\* C2: a handler is invoked only when the user is not the superuser (or
\* allow_root is set) and the first positional argument is one of the eight
\* public commands; every other invocation exits with status 1 without a
\* handler and without an external command.
C2_OnlyPublicCommands ==
    LET allowed == /\ inv.user # "root" \/ inv.allow_root
                   /\ inv.argv # <<>>
                   /\ inv.argv[1] \in PublicCommands
    IN  (pc # "idle" /\ ~allowed) =>
            /\ handler = "none"
            /\ pc = "exited"
            /\ ExitCode = 1
            /\ log = <<>>

UpgradeOrder(pycore) ==
    <<"pip_self", "pip_server">> \o (IF pycore THEN <<"pip_pycore">> ELSE <<>>)
        \o <<"kegbot", "restart">>

\* C3: in upgrade, once the self-upgrade command has returned: when its output
\* contains 'already up-to-date' the server package, the companion package
\* (if enabled), the server's upgrade entry point and the service restart run
\* in that order; when it does not, no further command runs.
C3_UpgradeGate ==
    LET gate == output.t = "str" /\ Contains(<<"already", "up-to-date">>, output.s)
    IN  handler = "upgrade" =>
            /\ IsPrefix(Tags(log), UpgradeOrder(inv.pycore))
            /\ Len(log) > 1 => gate
            /\ (pc \notin {"u_pip_self", "u_gate"} /\ ~gate) => Len(log) <= 1
            /\ (exitKind = "return" /\ gate) => Tags(log) = UpgradeOrder(inv.pycore)
            /\ (exitKind = "return" /\ ~gate) =>
                   Tags(log) = <<"pip_self">> /\ "run_upgrade_again" \in msgs

C3_Witness ==
    /\ handler = "upgrade"
    /\ exitKind = "return"
    /\ Tags(log) = <<"pip_self", "pip_server", "pip_pycore", "kegbot", "restart">>
    /\ output = StrVal(<<"Requirement", "already", "up-to-date", ":", "kegberry">>)

CreationTags == {"create_db", "useradd", "venv_create"}

\* The state a completed install with the companion daemon enabled leaves.
PostInstall(e) ==
    /\ e.db
    /\ e.user
    /\ e.venvs = {SERVER_VENV, PYCORE_VENV}
    /\ e.cred # <<>>
    /\ e.nginx
    /\ e.supervisor = "pycore"

\* The database probe of this run, if it has been spawned, exited 0.
ProbeSucceeded ==
    \A i \in 1..Len(log) : log[i].tag = "mysqlshow" => log[i].rc = 0

\* C4 as stated: an install that starts in the post-install state, its
\* existence probes succeeding, skips the database, account and environment
\* creation, and the external state after it equals the state before it.
C4_SecondRunSameState ==
    (handler = "install" /\ PostInstall(pre) /\ inv.pycore /\ ProbeSucceeded) =>
        /\ TagSet(log) \cap CreationTags = {}
        /\ exitKind = "return" => ext = pre

\* C4 amended: an install that starts with the database, the account and both
\* environment directories present, its database probe succeeding, skips
\* their creation and removes nothing: database, account, environments and
\* installed configuration files exist after it as before; the credential
\* file is written anew with the key this run's create_api_key printed.
C4_SecondRunSkipsCreation ==
    (/\ handler = "install"
     /\ pre.db /\ pre.user /\ pre.venvs = {SERVER_VENV, PYCORE_VENV}
     /\ ProbeSucceeded) =>
        /\ TagSet(log) \cap CreationTags = {}
        /\ ext.db /\ ext.user /\ ext.venvs = pre.venvs
        /\ pre.nginx => ext.nginx
        /\ pre.supervisor # "none" => ext.supervisor # "none"
        /\ pre.cred # <<>> => ext.cred # <<>>
        /\ exitKind = "return" =>
               /\ api_key.t = "str"
               /\ ext = [pre EXCEPT !.cred = api_key.s, !.nginx = TRUE,
                                    !.supervisor = supervisor_tmpl(inv.pycore)]

C4_Witness ==
    /\ handler = "install"
    /\ PostInstall(pre)
    /\ inv.pycore
    /\ exitKind = "return"
    /\ ProbeSucceeded
    /\ "mysqlshow" \in TagSet(log)
    /\ "venv_skip" \in TagSet(log)
    /\ ext.cred # pre.cred

\* C5: with FLAGS.fake set, run_command spawns nothing, raises nothing and
\* returns success whatever its arguments, and no state of any command has a
\* spawned process.
C5_DryRunSpawnsNothing ==
    /\ \A fs \in BOOLEAN, call \in BOOLEAN, rc \in RC, out \in CommandOutputs :
        LET r == run_command(TRUE, fs, call, rc, out) IN
        ~r.spawned /\ ~r.raised /\ ~r.logged /\ r.ret = IntVal(0)
    /\ inv.fake =>
        /\ log = <<>>
        /\ diag = {}
        /\ exitKind # "CalledProcessError"
        /\ ext = pre

C5_Witness ==
    /\ inv.fake
    /\ handler = "delete"
    /\ calls = 3
    /\ exitKind = "return"

\* C6: without FLAGS.fake, on a non-zero exit: capturing output, the failure
\* is raised whatever fail_silently is, and the diagnostic is logged exactly
\* when fail_silently is false; with call=True nothing is raised.
C6_NonZeroExit ==
    (res # <<>> /\ ~arg.fake /\ arg.rc # 0) =>
        IF arg.call
        THEN ~res[1].raised /\ res[1].spawned
        ELSE /\ res[1].raised
             /\ res[1].spawned
             /\ res[1].logged <=> ~arg.fail_silently

C6_Witness ==
    /\ res # <<>>
    /\ ~arg.fake /\ arg.rc # 0 /\ ~arg.call /\ arg.fail_silently
    /\ res[1].raised /\ ~res[1].logged

Tolerated == {"mysqlshow", "userdel"}

Workflows == {"install", "upgrade", "delete", "start", "stop", "restart"}

\* C7: in install, upgrade, delete, start, stop and restart a non-zero exit
\* of a command other than the database probe and delete's account removal
\* ends the workflow at that step: no later command runs.
C7_FailFast ==
    handler \in Workflows =>
        \A i \in 1..Len(log) :
            (log[i].rc # 0 /\ log[i].tag \notin Tolerated) =>
                /\ i = Len(log)
                /\ pc = "exited"
                /\ exitKind # "return"

\* C8: when install does not find virtualenv (the lookup exits non-zero, or
\* exits zero with nothing but whitespace), it reports the search path and
\* exits with status 1 before any environment, package, credential or
\* configuration step.
C8_MissingVirtualenv ==
    (/\ handler = "install"
     /\ log # <<>>
     /\ log[Len(log)].tag = "which"
     /\ log[Len(log)].rc # 0 \/ venv_cmd = <<>>) =>
        /\ pc = "exited"
        /\ ExitCode = 1
        /\ exitKind = "sys.exit"
        /\ "search_path" \in msgs
        /\ rendered = {}

\* C9: in the line run_as_kegberry builds, scanned with the shell's
\* double-quote rules, no quote of the given command closes the string
\* opened after `-c `.
C9_QuoteNeverCloses ==
    res # <<>> =>
        LET w == res[1] IN OuterClose(w) \notin 3..(Len(w) - 1)

\* C10: with FLAGS.fake set, install and upgrade run through to normal
\* completion.
C10_DryRunCompletes ==
    (inv.fake /\ handler \in {"install", "upgrade"} /\ pc = "exited") =>
        exitKind = "return"
====
